---- MODULE Spec2Model ----
(***************************************************************************)
(* A model of blob-dl's download orchestration:                            *)
(*   run.rs                      run_and_observe, run_command,             *)
(*                               ask_for_redownload, is_recoverable        *)
(*   youtube/yt_playlist/wizard.rs   format::get_format, fetch_formats     *)
(* Text is modelled as sequences of tokens: an error message is a sequence *)
(* of phrases, a line of the child's output is a record of the markers it  *)
(* contains and of the fields YtdlpError::from_error_output reads off it.  *)
(***************************************************************************)
EXTENDS Integers, Sequences, FiniteSets, TLC

\* ------------------------------------------------------------------ bounds
\* lines the first child writes before it closes its streams
MaxOut == 3
\* lines a child writes in the run seen at the level of the pipes
MaxWrites == 3
\* lines a pipe holds before a write to it blocks
PipeCap == 1
\* lines the child of a retry command writes
MaxRetryOut == 1
\* items in a playlist
MaxVideos == 2
\* descriptors in the catalog of an item
MaxFormats == 2
\* tokens in the text fetch_formats parses
MaxDump == 4
\* phrases in an error message given to is_recoverable
MaxMsgLen == 2
\* digits of a format code in the legacy table
MaxDigits == 3

\* ------------------------------------------------- sequences, generic helpers
SeqsUpTo(S, n) == UNION {[1..k -> S] : k \in 0..n}

\* the members of a finite set of numbers, ascending
RECURSIVE Ascending(_)
Ascending(S) ==
    IF S = {} THEN <<>>
    ELSE LET m == CHOOSE x \in S : \A y \in S : x <= y
         IN <<m>> \o Ascending(S \ {m})

Range(s) == {s[i] : i \in DOMAIN s}

\* str::contains on token sequences: pat occurs in msg as a contiguous run
Contains(msg, pat) ==
    \E i \in 1..(Len(msg) - Len(pat) + 1) : SubSeq(msg, i, i + Len(pat) - 1) = pat

\* ------------------------------------------ youtube_error_message constants
\* The texts live in crate::youtube_error_message; each is one phrase here.
VIDEO_UNAVAILABLE == <<"Video unavailable">>
PRIVATE_VIDEO == <<"Private video">>
NONEXISTENT_PLAYLIST == <<"The playlist does not exist">>
HOMEPAGE_REDIRECT == <<"redirected to home page">>
VIOLENT_VIDEO == <<"removed for violating policy">>
REMOVED_VIDEO == <<"removed by the uploader">>
YTDLP_GAVE_UP == <<"giving up after retries">>
VIDEO_NOT_FOUND == <<"video not found">>
NETWORK_FAIL == <<"Temporary failure in name resolution">>
NO_API_PAGE == <<"Unable to download API page">>
ENCODER_STREAM_ERROR == <<"encoder stream error">>
NONEXISTENT_VIDEO == <<"video does not exist">>
\* a phrase no table entry holds
OTHER_TEXT == <<"some new message">>

\* run.rs init_error_msg_lut: the documented messages and their verdicts
init_error_msg_lut ==
    (PRIVATE_VIDEO :> FALSE) @@ (NONEXISTENT_PLAYLIST :> FALSE) @@
    (HOMEPAGE_REDIRECT :> FALSE) @@ (VIOLENT_VIDEO :> FALSE) @@
    (REMOVED_VIDEO :> FALSE) @@ (YTDLP_GAVE_UP :> FALSE) @@
    (VIDEO_NOT_FOUND :> FALSE) @@ (NETWORK_FAIL :> TRUE) @@
    (NO_API_PAGE :> FALSE) @@ (ENCODER_STREAM_ERROR :> FALSE) @@
    (NONEXISTENT_VIDEO :> FALSE)

\* run.rs is_recoverable: the override by substring, then HashMap::get, an
\* exact-key lookup, then the optimistic default
is_recoverable(error, table) ==
    IF Contains(error.error_msg, VIDEO_UNAVAILABLE) THEN FALSE
    ELSE IF error.error_msg \in DOMAIN table
         THEN (IF table[error.error_msg] = FALSE THEN FALSE ELSE TRUE)
         ELSE TRUE

\* ------------------------------------------------------- the child's output
Quiet == "Quiet"
Default == "Default"
Verbose == "Verbose"
Verbosity == {Quiet, Default, Verbose}

\* A line: err = it contains "ERROR:", dl = it contains "[download]";
\* video_id and error_msg are what from_error_output reads off an error line.
PlainLine == [err |-> FALSE, dl |-> FALSE, video_id |-> "-", error_msg |-> <<>>]
ProgressLine == [err |-> FALSE, dl |-> TRUE, video_id |-> "-", error_msg |-> <<>>]
ErrorLine(id, msg) == [err |-> TRUE, dl |-> FALSE, video_id |-> id, error_msg |-> msg]
\* an error line that also carries the progress marker
DownloadErrorLine(id, msg) == [err |-> TRUE, dl |-> TRUE, video_id |-> id, error_msg |-> msg]

\* the lines the first child is driven with: item a is unavailable, or fails
\* on the network with a line that carries the progress marker too, item b
\* fails on the network
Lines ==
    {PlainLine, DownloadErrorLine("a", NETWORK_FAIL),
     ErrorLine("a", VIDEO_UNAVAILABLE), ErrorLine("b", NETWORK_FAIL)}

\* the lines the child of a retry command (one item) is driven with
RetryLines == {PlainLine, ErrorLine("b", NETWORK_FAIL)}

\* crate::error YtdlpError::from_error_output: the item and the message of a line
from_error_output(line) == [video_id |-> line.video_id, error_msg |-> line.error_msg]

\* run.rs run_command, the body of the loop over the lines for one verbosity:
\* the errors after `line` has been seen
observe_line(errs, line, v) ==
    CASE v = Quiet ->
            IF line.err THEN Append(errs, from_error_output(line)) ELSE errs
      [] v = Default ->
            IF line.dl THEN errs
            ELSE IF line.err THEN Append(errs, from_error_output(line)) ELSE errs
      [] v = Verbose ->
            IF line.err THEN Append(errs, from_error_output(line)) ELSE errs

\* run.rs run_command: whether the line is echoed to the console
echo_line(line, v) ==
    CASE v = Quiet -> FALSE
      [] v = Default -> line.dl \/ line.err
      [] v = Verbose -> TRUE

\* run.rs run_command on the whole output of a child: the errors vector
\* (<<>> stands for None)
RECURSIVE collect_errors(_, _, _)
collect_errors(errs, out, v) ==
    IF out = <<>> THEN errs
    ELSE collect_errors(observe_line(errs, Head(out), v), Tail(out), v)

\* ------------------------------------------------------------- the state
VARIABLES
    \* run_and_observe: the position in the function
    pc,
    \* parser::Verbosity, given by the caller
    verbosity,
    \* the errors of the first run_command (<<>> when it returned None)
    errors,
    \* ask_for_redownload: the items offered in the MultiSelect prompt
    user_options,
    \* ask_for_redownload: the unrecoverable errors printed to the user
    reported,
    \* the indices the user picked, as MultiSelect returns them
    user_selection,
    \* the commands rebuilt for the second pass
    to_be_downloaded,
    \* the position of `for mut com in to_be_downloaded`
    cur,
    \* the child of the run_command in progress:
    \* "none", "running" (streams open), "closed" (streams closed, not exited), "exited"
    child,
    \* what the child of the run_command in progress wrote before its streams closed
    output,
    \* children of earlier run_command calls that have not exited yet
    orphans,
    \* how many MultiSelect prompts were shown
    prompts,
    \* the commands spawned by the second pass, in order
    ran,
    \* whether some second-pass run returned Some(errors)
    second_failed,
    \* run_command at the level of the pipes: where stdout.lines().chain(stderr.lines())
    \* stands: "stdout", "stderr", "returned" ("idle": no such run)
    reader,
    \* the lines written to each pipe and not read yet
    pipe,
    \* whether the child still holds its ends of the pipes
    wopen,
    \* the write the child is in the middle of: <<>> or <<[stream, line]>>
    pending,
    \* how many writes the child began
    written,
    \* the lines the reader has taken off the pipes, in order
    seen,
    \* the lines run_command printed
    echoed,
    \* the errors vector of this run_command
    found,
    \* playlist get_format: the position in the function ("idle": not running)
    fpc,
    \* the catalogs fetch_formats returned, one per item
    all_available_formats,
    \* the media the user asked for
    media_selected,
    \* the ids every item offers, ascending
    common_ids,
    \* the items of the Select prompt
    format_options,
    \* the ids behind the items of the prompt from the third on
    correct_ids,
    \* what get_format returned
    chosen,
    \* fetch_formats: the position ("idle": not running)
    dpc,
    \* the text youtube-dl -F printed, as tokens
    dump,
    \* the catalogs fetch_formats returns
    all_videos,
    \* is_recoverable: the position ("idle": not running)
    cpc,
    \* the error it is asked about
    cerror,
    \* its verdict
    verdict,
    \* the position the user picked in the list of format options
    format_selection,
    \* yt_video get_format_from_yt: the position ("idle": not running)
    vpc,
    \* the formats of the video, deserialized from yt-dlp -j
    serialized_formats,
    \* VideoFormat::from_command: the position ("idle": not running)
    wpc,
    \* the row of the legacy table it is given, as columns
    row,
    \* the descriptor it returns
    parsed

runVars ==
    <<pc, verbosity, errors, user_options, reported, user_selection,
      to_be_downloaded, cur, child, output, orphans, prompts, ran, second_failed>>

pipeVars == <<reader, pipe, wopen, pending, written, seen, echoed, found>>

fmtVars ==
    <<fpc, all_available_formats, media_selected, common_ids, format_options,
      correct_ids, chosen, format_selection>>

fetchVars == <<dpc, dump, all_videos>>

clsVars == <<cpc, cerror, verdict>>

ytVars == <<vpc, serialized_formats>>

rowVars == <<wpc, row, parsed>>

vars == <<runVars, pipeVars, fmtVars, fetchVars, clsVars, ytVars, rowVars>>

runRest ==
    <<pc, errors, user_options, reported, user_selection, to_be_downloaded,
      cur, child, output, orphans, prompts, ran, second_failed>>

\* what the actions of run_and_observe, of the pipes, of get_format, of
\* fetch_formats and of is_recoverable leave alone
notRun == <<pipeVars, fmtVars, fetchVars, clsVars, ytVars, rowVars>>
notPipe == <<runRest, fmtVars, fetchVars, clsVars, ytVars, rowVars>>
notFmt == <<runVars, pipeVars, fetchVars, clsVars, ytVars, rowVars>>
notFetch == <<runVars, pipeVars, fmtVars, clsVars, ytVars, rowVars>>
notCls == <<runVars, pipeVars, fmtVars, fetchVars, ytVars, rowVars>>
notYt ==
    <<runVars, pipeVars, fetchVars, clsVars, rowVars, fpc, all_available_formats,
      common_ids>>
notRow == <<runVars, pipeVars, fmtVars, fetchVars, clsVars, ytVars>>

\* ------------------------------------------------------ run.rs, the prompt
SELECT_ALL == "Select all"
SELECT_NOTHING == "Don't re-download anything"

Recoverable(e) == is_recoverable(e, init_error_msg_lut)
Unrecoverable(e) == ~is_recoverable(e, init_error_msg_lut)

\* the options when every error is pushed to them
build_user_options_all(errs) == <<SELECT_ALL, SELECT_NOTHING>> \o errs

\* run.rs ask_for_redownload: the two default options, then error.to_string()
\* of every recoverable error (the error itself stands for its text)
build_user_options(errs) ==
    <<SELECT_ALL, SELECT_NOTHING>> \o SelectSeq(errs, Recoverable)

\* run.rs ask_for_redownload: the errors it is no use asking about
unrecoverable_errors(errs) == SelectSeq(errs, Unrecoverable)

\* a prompt that is shown with the two default options alone
needs_prompt_always(options) == Len(options) >= 2

\* run.rs ask_for_redownload: the prompt is shown only when there is an error
\* to pick
needs_prompt(options) == Len(options) > 2

\* dialoguer MultiSelect::interact_on: the checked items' indices (0-based),
\* ascending
Selections(options) == {Ascending(S) : S \in SUBSET (0..(Len(options) - 1))}

\* config::DownloadConfig::build_command_for_video: the command downloading
\* one item with the batch's configuration
build_command_for_video(id) == [video |-> id]

\* run.rs run_and_observe, the selected-items branch: one command per index
\* that is neither 0 nor 1, for errors[i - 2] (0-based)
RECURSIVE rebuild_selected(_, _)
rebuild_selected(sel, errs) ==
    IF sel = <<>> THEN <<>>
    ELSE IF Head(sel) = 0 \/ Head(sel) = 1 THEN rebuild_selected(Tail(sel), errs)
    ELSE <<build_command_for_video(errs[(Head(sel) - 2) + 1].video_id)>>
             \o rebuild_selected(Tail(sel), errs)

\* errors[i - 2] panics when i - 2 is no index of errors
IndexPanics(sel, errs) ==
    \E k \in DOMAIN sel : sel[k] >= 2 /\ sel[k] - 2 >= Len(errs)

\* run.rs run_and_observe: the retry-all branch, a command for each of errors
rebuild_all(errs) == [i \in 1..Len(errs) |-> build_command_for_video(errs[i].video_id)]

\* to_be_downloaded without the branch for "retry none"
rebuild_commands_without_none(sel, errs) ==
    IF sel = <<>> THEN <<>>
    ELSE IF sel[1] = 0 THEN rebuild_all(errs)
    ELSE rebuild_selected(sel, errs)

\* run.rs run_and_observe lines 26-50: to_be_downloaded from the selection
rebuild_commands(sel, errs) ==
    IF sel = <<>> THEN <<>>
    ELSE IF sel[1] = 0 THEN rebuild_all(errs)
    ELSE IF sel[1] = 1 THEN <<>>
    ELSE rebuild_selected(sel, errs)

\* a second pass that asks again when a rerun reports errors
after_second_pass_reask(res, errs) ==
    IF res = <<>> THEN [pc |-> "retry", errors |-> errs]
    ELSE [pc |-> "ask", errors |-> res]

\* run.rs run_and_observe lines 51-53: what a second-pass run_command's
\* result leads to; the result is dropped and the loop goes on
after_second_pass(res, errs) == [pc |-> "retry", errors |-> errs]

\* ------------------------------------------------- run_and_observe, actions
RunInit ==
    /\ pc = "start"
    /\ verbosity \in Verbosity
    /\ errors = <<>>
    /\ user_options = <<>>
    /\ reported = <<>>
    /\ user_selection = <<>>
    /\ to_be_downloaded = <<>>
    /\ cur = 0
    /\ child = "none"
    /\ output = <<>>
    /\ orphans = 0
    /\ prompts = 0
    /\ ran = <<>>
    /\ second_failed = FALSE

\* Command::spawn: a new child; the Child of the run before was dropped
\* without wait(), so it stays a process until it exits by itself
Spawned ==
    /\ child' = "running"
    /\ orphans' = orphans + (IF child = "closed" THEN 1 ELSE 0)
    /\ output' = <<>>

\* run_and_observe calls run_command(command): spawn
SpawnFirst ==
    /\ UNCHANGED notRun
    /\ pc = "start"
    /\ Spawned
    /\ pc' = "first_run"
    /\ UNCHANGED <<verbosity, errors, user_options, reported, user_selection,
                   to_be_downloaded, cur, prompts, ran, second_failed>>

\* the child has written `out` and closes stdout and stderr
ChildCloseStreams ==
    /\ UNCHANGED notRun
    /\ child = "running"
    /\ \E out \in (IF pc = "first_run" THEN SeqsUpTo(Lines, MaxOut)
                                          ELSE SeqsUpTo(RetryLines, MaxRetryOut)) :
           output' = out
    /\ child' = "closed"
    /\ UNCHANGED <<pc, verbosity, errors, user_options, reported, user_selection,
                   to_be_downloaded, cur, orphans, prompts, ran, second_failed>>

\* the child of the run in progress exits
ChildExit ==
    /\ UNCHANGED notRun
    /\ child = "closed"
    /\ child' = "exited"
    /\ UNCHANGED <<pc, verbosity, errors, user_options, reported, user_selection,
                   to_be_downloaded, cur, output, orphans, prompts, ran, second_failed>>

\* a child of an earlier run exits
OrphanExit ==
    /\ UNCHANGED notRun
    /\ orphans > 0
    /\ orphans' = orphans - 1
    /\ UNCHANGED <<pc, verbosity, errors, user_options, reported, user_selection,
                   to_be_downloaded, cur, child, output, prompts, ran, second_failed>>

\* run_command of the first run returns: both streams are at end of file
FirstRunReturn ==
    /\ UNCHANGED notRun
    /\ pc = "first_run"
    /\ child \in {"closed", "exited"}
    /\ errors' = collect_errors(<<>>, output, verbosity)
    /\ pc' = IF errors' = <<>> THEN "done" ELSE "ask"
    /\ output' = <<>>
    /\ UNCHANGED <<verbosity, user_options, reported, user_selection,
                   to_be_downloaded, cur, child, orphans, prompts, ran, second_failed>>

\* ask_for_redownload(&errors)
AskForRedownload ==
    /\ UNCHANGED notRun
    /\ pc = "ask"
    /\ user_options' = build_user_options(errors)
    /\ reported' = unrecoverable_errors(errors)
    /\ IF needs_prompt(user_options')
       THEN /\ \E sel \in Selections(user_options') : user_selection' = sel
            /\ prompts' = prompts + 1
       ELSE /\ user_selection' = <<>>
            /\ prompts' = prompts
    /\ pc' = "build"
    /\ UNCHANGED <<verbosity, errors, to_be_downloaded, cur, child, output,
                   orphans, ran, second_failed>>

\* run_and_observe lines 26-50
Rebuild ==
    /\ UNCHANGED notRun
    /\ pc = "build"
    /\ IF user_selection # <<>> /\ user_selection[1] > 1
          /\ IndexPanics(user_selection, errors)
       THEN pc' = "panic" /\ UNCHANGED <<to_be_downloaded, cur>>
       ELSE /\ to_be_downloaded' = rebuild_commands(user_selection, errors)
            /\ cur' = 1
            /\ pc' = "retry"
    /\ UNCHANGED <<verbosity, errors, user_options, reported, user_selection,
                   child, output, orphans, prompts, ran, second_failed>>

\* for mut com in to_be_downloaded: run_command(&mut com): spawn
SpawnRetry ==
    /\ UNCHANGED notRun
    /\ pc = "retry"
    /\ cur <= Len(to_be_downloaded)
    /\ Spawned
    /\ ran' = Append(ran, to_be_downloaded[cur])
    /\ pc' = "retry_run"
    /\ UNCHANGED <<verbosity, errors, user_options, reported, user_selection,
                   to_be_downloaded, cur, prompts, second_failed>>

\* run_command of a second-pass command returns; its result is not used
RetryReturn ==
    /\ UNCHANGED notRun
    /\ pc = "retry_run"
    /\ child \in {"closed", "exited"}
    /\ LET res == collect_errors(<<>>, output, verbosity)
           nxt == after_second_pass(res, errors)
       IN /\ pc' = nxt.pc
          /\ errors' = nxt.errors
          /\ second_failed' = (second_failed \/ res # <<>>)
    /\ cur' = cur + 1
    /\ output' = <<>>
    /\ UNCHANGED <<verbosity, user_options, reported, user_selection,
                   to_be_downloaded, child, orphans, prompts, ran>>

\* the loop over to_be_downloaded is over: run_and_observe returns
Finish ==
    /\ UNCHANGED notRun
    /\ pc = "retry"
    /\ cur > Len(to_be_downloaded)
    /\ pc' = "done"
    /\ UNCHANGED <<verbosity, errors, user_options, reported, user_selection,
                   to_be_downloaded, cur, child, output, orphans, prompts, ran,
                   second_failed>>

RunNext ==
    \/ SpawnFirst
    \/ ChildCloseStreams
    \/ ChildExit
    \/ OrphanExit
    \/ FirstRunReturn
    \/ AskForRedownload
    \/ Rebuild
    \/ SpawnRetry
    \/ RetryReturn
    \/ Finish

\* no run is looked at at the level of the pipes
PipeIdle ==
    /\ reader = "idle"
    /\ pipe = [s \in {"stdout", "stderr"} |-> <<>>]
    /\ wopen = FALSE
    /\ pending = <<>>
    /\ written = 0
    /\ seen = <<>>
    /\ echoed = <<>>
    /\ found = <<>>

\* get_format, fetch_formats and is_recoverable are not running
FmtIdle ==
    /\ fpc = "idle"
    /\ all_available_formats = <<>>
    /\ media_selected = "Video"
    /\ common_ids = <<>>
    /\ format_options = <<>>
    /\ correct_ids = <<>>
    /\ chosen = "none"
    /\ format_selection = 0

FetchIdle ==
    /\ dpc = "idle"
    /\ dump = <<>>
    /\ all_videos = <<>>

ClsIdle ==
    /\ cpc = "idle"
    /\ cerror = "none"
    /\ verdict = "none"

YtIdle == vpc = "idle" /\ serialized_formats = <<>>

RowIdle == wpc = "idle" /\ row = <<>> /\ parsed = "none"

Init ==
    RunInit /\ PipeIdle /\ FmtIdle /\ FetchIdle /\ ClsIdle /\ YtIdle /\ RowIdle
Next == RunNext
Spec == Init /\ [][Next]_vars

\* ------------------------------------------- run_command, the two pipes
\* run_and_observe is not running
RunIdle ==
    /\ pc = "idle"
    /\ errors = <<>>
    /\ user_options = <<>>
    /\ reported = <<>>
    /\ user_selection = <<>>
    /\ to_be_downloaded = <<>>
    /\ cur = 0
    /\ child = "none"
    /\ output = <<>>
    /\ orphans = 0
    /\ prompts = 0
    /\ ran = <<>>
    /\ second_failed = FALSE

Streams == {"stdout", "stderr"}

\* the lines the child writes in this view
PipeLines ==
    {PlainLine, ProgressLine, ErrorLine("b", NETWORK_FAIL),
     DownloadErrorLine("a", NETWORK_FAIL)}

\* run.rs line 115 (126, 142): Chain reads the first iterator to its end,
\* then the second
chain_next(s) == IF s = "stdout" THEN "stderr" ELSE "returned"

\* run.rs lines 101-110: the child is spawned with both streams piped
PipeInit ==
    /\ verbosity \in Verbosity
    /\ reader = "stdout"
    /\ pipe = [s \in Streams |-> <<>>]
    /\ wopen = TRUE
    /\ pending = <<>>
    /\ written = 0
    /\ seen = <<>>
    /\ echoed = <<>>
    /\ found = <<>>

\* the child starts writing a line to one of its streams
ChildBeginWrite ==
    /\ UNCHANGED <<notPipe, verbosity>>
    /\ wopen
    /\ pending = <<>>
    /\ written < MaxWrites
    /\ \E s \in Streams, l \in PipeLines : pending' = <<[stream |-> s, line |-> l]>>
    /\ written' = written + 1
    /\ UNCHANGED <<reader, pipe, wopen, seen, echoed, found>>

\* the write goes through once the pipe has room
ChildCompleteWrite ==
    /\ UNCHANGED <<notPipe, verbosity>>
    /\ pending # <<>>
    /\ Len(pipe[pending[1].stream]) < PipeCap
    /\ pipe' = [pipe EXCEPT ![pending[1].stream] = Append(@, pending[1].line)]
    /\ pending' = <<>>
    /\ UNCHANGED <<reader, wopen, written, seen, echoed, found>>

\* the child exits: both streams are closed
ChildCloseBoth ==
    /\ UNCHANGED <<notPipe, verbosity>>
    /\ wopen
    /\ pending = <<>>
    /\ wopen' = FALSE
    /\ UNCHANGED <<reader, pipe, pending, written, seen, echoed, found>>

\* run.rs lines 115-153: the next line of the stream the chain stands at
ReadLine ==
    /\ UNCHANGED <<notPipe, verbosity>>
    /\ reader \in Streams
    /\ pipe[reader] # <<>>
    /\ LET line == Head(pipe[reader])
       IN /\ found' = observe_line(found, line, verbosity)
          /\ echoed' = IF echo_line(line, verbosity) THEN Append(echoed, line) ELSE echoed
          /\ seen' = Append(seen, line)
    /\ pipe' = [pipe EXCEPT ![reader] = Tail(@)]
    /\ UNCHANGED <<reader, wopen, pending, written>>

\* the stream the chain stands at is at end of file: on to the next one, or
\* out of the loop (lines 156-160)
ReadEof ==
    /\ UNCHANGED <<notPipe, verbosity>>
    /\ reader \in Streams
    /\ pipe[reader] = <<>>
    /\ ~wopen
    /\ reader' = chain_next(reader)
    /\ UNCHANGED <<pipe, wopen, pending, written, seen, echoed, found>>

PipeNext ==
    \/ ChildBeginWrite
    \/ ChildCompleteWrite
    \/ ChildCloseBoth
    \/ ReadLine
    \/ ReadEof

InitPipe ==
    RunIdle /\ PipeInit /\ FmtIdle /\ FetchIdle /\ ClsIdle /\ YtIdle /\ RowIdle
SpecPipe == InitPipe /\ [][PipeNext]_vars

\* ------------------------------------------------- claims, run_command
IsErrorLine(l) == l.err

ErrorsOf(ls) == [i \in 1..Len(ls) |-> from_error_output(ls[i])]

\* C3: under every verbosity the errors vector holds every line read so far
\* that contains "ERROR:", with or without "[download]", in order.
C3_EveryErrorLineKept == found = ErrorsOf(SelectSeq(seen, IsErrorLine))

\* the child is blocked writing to a full pipe while the reader waits on the
\* other, empty and open, pipe
Stalled ==
    /\ reader \in Streams
    /\ pipe[reader] = <<>>
    /\ wopen
    /\ pending # <<>>
    /\ pending[1].stream # reader
    /\ Len(pipe[pending[1].stream]) >= PipeCap

\* C4: the runner never waits on one stream while the child is blocked on
\* the other, full, stream.
C4_NeverStalled == ~Stalled

\* ------------------------------------------------- claims, run_and_observe
\* the second pass has been built
Built == pc \in {"retry", "retry_run", "done"} /\ errors # <<>>

CommandsFor(errs) == [i \in 1..Len(errs) |-> build_command_for_video(errs[i].video_id)]

\* C1: when the selection contains index 0, the rebuilt commands are exactly
\* one per recoverable error of the first run, in order, and none for an
\* unrecoverable error.
C1_RetryAllOnlyRecoverable ==
    (Built /\ 0 \in Range(user_selection))
        => to_be_downloaded = CommandsFor(SelectSeq(errors, Recoverable))

\* C2: when the selection contains neither 0 nor 1, the rebuilt commands are
\* those of the errors displayed at the selected positions of the prompt, one
\* per selected index, and no index is out of bounds.
C2_SelectedMatchDisplayed ==
    /\ pc # "panic"
    /\ (Built /\ 0 \notin Range(user_selection) /\ 1 \notin Range(user_selection))
        => to_be_downloaded =
               [k \in 1..Len(user_selection) |->
                    build_command_for_video(user_options[user_selection[k] + 1].video_id)]

\* C9: retry is one level deep: at most one prompt is ever shown, the second
\* pass spawns the rebuilt commands in order, each once, and once a
\* second-pass run has returned errors nothing is asked or rebuilt again.
C9_RetryOneLevelDeep ==
    /\ prompts <= 1
    /\ pc = "retry" => ran = SubSeq(to_be_downloaded, 1, cur - 1)
    /\ pc = "retry_run" => ran = SubSeq(to_be_downloaded, 1, cur)
    /\ pc = "done" => ran = to_be_downloaded
    /\ second_failed => pc \in {"retry", "retry_run", "done"}

\* a session that reran two commands, one of which failed again, and ended
C9_Witness == pc = "done" /\ Len(ran) >= 2 /\ second_failed

ActiveChildren == orphans + (IF child \in {"running", "closed"} THEN 1 ELSE 0)

\* C10: at most one child process is active at any time: no command is
\* spawned while the child of an earlier run_command has not exited.
C10_OneChildAtATime == ActiveChildren <= 1


\* ------------------------------------------------------- is_recoverable
\* the phrases error messages are made of
Phrases ==
    {VIDEO_UNAVAILABLE[1], PRIVATE_VIDEO[1], NONEXISTENT_PLAYLIST[1],
     HOMEPAGE_REDIRECT[1], VIOLENT_VIDEO[1], REMOVED_VIDEO[1], YTDLP_GAVE_UP[1],
     VIDEO_NOT_FOUND[1], NETWORK_FAIL[1], NO_API_PAGE[1], ENCODER_STREAM_ERROR[1],
     NONEXISTENT_VIDEO[1], OTHER_TEXT[1]}

Messages == SeqsUpTo(Phrases, MaxMsgLen)

ClsInit ==
    /\ cpc = "ask"
    /\ \E m \in Messages : cerror = [video_id |-> "a", error_msg |-> m]
    /\ verdict = "none"

\* is_recoverable(error, &lut), as ask_for_redownload calls it
Classify ==
    /\ UNCHANGED notCls
    /\ cpc = "ask"
    /\ verdict' = is_recoverable(cerror, init_error_msg_lut)
    /\ cpc' = "done"
    /\ UNCHANGED cerror

InitClassify ==
    /\ RunIdle /\ verbosity = Default /\ PipeIdle /\ FmtIdle /\ FetchIdle /\ ClsInit
    /\ YtIdle /\ RowIdle
SpecClassify == InitClassify /\ [][Classify]_vars

\* the classification the claim describes: the override, then any documented
\* unrecoverable message the text contains, else recoverable
ReferenceVerdict(msg) ==
    IF Contains(msg, VIDEO_UNAVAILABLE) THEN FALSE
    ELSE IF \E k \in DOMAIN init_error_msg_lut :
                init_error_msg_lut[k] = FALSE /\ Contains(msg, k)
         THEN FALSE
    ELSE TRUE

\* C7: is_recoverable gives the reference classification for every message:
\* unrecoverable when the message contains "video unavailable" or a message
\* the table maps to false, recoverable otherwise.
C7_ReferenceClassification ==
    cpc = "done" => verdict = ReferenceVerdict(cerror.error_msg)

\* ------------------------------------------------------- fetch_formats
\* The dump is a sequence of tokens: SEP is "[download] Downloading video",
\* NL a line break, NUM text that starts with a numeric character (a format
\* row), VO the text "video only", TXT any other text.
SEP == "SEP"
NL == "NL"
NUM == "NUM"
VO == "VO"
TXT == "TXT"
DumpTokens == {SEP, NL, NUM, VO, TXT}

\* str::split(sep): the pieces between the occurrences of sep, empty ones kept
RECURSIVE SplitOn(_, _, _)
SplitOn(text, sep, piece) ==
    IF text = <<>> THEN <<piece>>
    ELSE IF Head(text) = sep THEN <<piece>> \o SplitOn(Tail(text), sep, <<>>)
    ELSE SplitOn(Tail(text), sep, Append(piece, Head(text)))

\* str::lines(): the pieces between line breaks; an empty last piece is no line
lines_of(text) ==
    LET pieces == SplitOn(text, NL, <<>>)
    IN IF pieces[Len(pieces)] = <<>> THEN SubSeq(pieces, 1, Len(pieces) - 1) ELSE pieces

\* Iterator::skip(1)
skip_one(ls) == IF ls = <<>> THEN <<>> ELSE Tail(ls)

\* wizard.rs line 162: line.chars().next().unwrap() on a line without a character
first_char_panics(line) == line = <<>>

\* wizard.rs lines 162-165: the lines that are no format row
ignored(line) == Head(line) # NUM \/ VO \in Range(line)

\* VideoFormat::from_command: the descriptor of a row (the row stands for it)
from_command(line) == [row |-> line]

\* wizard.rs lines 156-169: the VideoSpecs of one paragraph
RECURSIVE add_formats(_, _)
add_formats(video, ls) ==
    IF ls = <<>> THEN video
    ELSE IF ignored(Head(ls)) THEN add_formats(video, Tail(ls))
    ELSE add_formats(Append(video, from_command(Head(ls))), Tail(ls))

\* wizard.rs lines 153-178: every paragraph's catalog, empty ones left out
RECURSIVE collect_videos(_)
collect_videos(paragraphs) ==
    IF paragraphs = <<>> THEN <<>>
    ELSE LET video == add_formats(<<>>, skip_one(lines_of(Head(paragraphs))))
         IN (IF video = <<>> THEN <<>> ELSE <<video>>) \o collect_videos(Tail(paragraphs))

\* some line the loop looks at has no first character
fetch_panics(text) ==
    \E p \in Range(SplitOn(text, SEP, <<>>)) :
        \E l \in Range(skip_one(lines_of(p))) : first_char_panics(l)

\* wizard.rs fetch_formats
fetch_formats(text) ==
    IF fetch_panics(text) THEN "panic"
    ELSE collect_videos(SplitOn(text, SEP, <<>>))

FetchInit ==
    /\ dpc = "fetch"
    /\ dump \in SeqsUpTo(DumpTokens, MaxDump)
    /\ all_videos = <<>>

FetchFormats ==
    /\ UNCHANGED notFetch
    /\ dpc = "fetch"
    /\ LET res == fetch_formats(dump)
       IN IF res = "panic"
          THEN dpc' = "panic" /\ all_videos' = all_videos
          ELSE dpc' = "done" /\ all_videos' = res
    /\ UNCHANGED dump

InitFetch ==
    /\ RunIdle /\ verbosity = Default /\ PipeIdle /\ FmtIdle /\ FetchInit /\ ClsIdle
    /\ YtIdle /\ RowIdle
SpecFetch == InitFetch /\ [][FetchFormats]_vars

\* the rows of the dump that are format rows: lines that start with a
\* numeric character and do not hold "video only", the first line of each
\* paragraph apart
ValidRows(text) ==
    {l \in UNION {Range(skip_one(lines_of(p))) : p \in Range(SplitOn(text, SEP, <<>>))} :
        l # <<>> /\ Head(l) = NUM /\ VO \notin Range(l)}

\* C8: fetch_formats never aborts on lines that are no format rows (blank
\* lines, headers, rows not starting with a digit): a dump without valid rows
\* gives the empty batch, and no returned catalog is empty.
C8_NeverFails ==
    /\ dpc # "panic"
    /\ dpc = "done" =>
          /\ (ValidRows(dump) = {} => all_videos = <<>>)
          /\ \A i \in DOMAIN all_videos : all_videos[i] # <<>>


\* ------------------------------------------- playlist format::get_format
\* yt_playlist/wizard.rs get_media_selection
MediaSelection == {"Video", "Audio"}

\* The descriptors the catalogs are made of: code and resolution, "audio"
\* for an audio-only row. Id 140 is audio-only for one item and a video for
\* another.
FormatPool ==
    {[code |-> 22, resolution |-> "1280x720"],
     [code |-> 140, resolution |-> "audio"],
     [code |-> 140, resolution |-> "256x144"]}

\* fetch_formats leaves out the empty catalogs
Catalogs == SeqsUpTo(FormatPool, MaxFormats) \ {<<>>}
Batches == SeqsUpTo(Catalogs, MaxVideos)

BEST_PER_VIDEO == "Best available quality for each video"
WORST_PER_VIDEO == "Worst available quality for each video"

\* VideoFormat::to_frontend: the text shown for a descriptor
to_frontend(format) == [shown |-> format]

RECURSIVE insert_sorted(_, _)
insert_sorted(x, s) ==
    IF s = <<>> THEN <<x>>
    ELSE IF x <= Head(s) THEN <<x>> \o s
    ELSE <<Head(s)>> \o insert_sorted(x, Tail(s))

RECURSIVE sort_ids(_)
sort_ids(s) == IF s = <<>> THEN <<>> ELSE insert_sorted(Head(s), sort_ids(Tail(s)))

\* VideoSpecs::refresh_and_sort_ids: the codes of the catalog, sorted
refresh_and_sort_ids(video) == sort_ids([i \in 1..Len(video) |-> video[i].code])

\* sdset Set::new: Ok for a slice that is sorted and without duplicates
set_new_ok(ids) == \A i \in 1..(Len(ids) - 1) : ids[i] < ids[i + 1]

\* a union where the intersection is meant
union_of_sets(sets) == Ascending(UNION {Range(sets[i]) : i \in DOMAIN sets})

\* wizard.rs lines 87-90: OpBuilder::from_vec(all_sets).intersection(), as a
\* SetBuf: the ids that are in every set, ascending; none when there is no set
intersection(sets) ==
    Ascending({x \in UNION {Range(sets[i]) : i \in DOMAIN sets} :
                   \A i \in DOMAIN sets : x \in Range(sets[i])})

\* the filter with the audio branch left out
skipped_video_branch_only(media, format) ==
    media = "Video" /\ format.resolution = "audio"

\* wizard.rs lines 103-111: the descriptors the media selection rules out
skipped(media, format) ==
    \/ media = "Video" /\ format.resolution = "audio"
    \/ media = "Audio" /\ format.resolution # "audio"

\* wizard.rs lines 102-118: the descriptors of the first catalog pushed for `id`
matches_of(id, formats, media) ==
    LET keep(f) == ~skipped(media, f) /\ f.code = id
    IN SelectSeq(formats, keep)

\* wizard.rs lines 97-120: the descriptors behind the concrete options, in
\* the order they are pushed
RECURSIVE offered(_, _, _)
offered(ids, batch, media) ==
    IF ids = <<>> THEN <<>>
    ELSE (IF batch = <<>> THEN <<>> ELSE matches_of(Head(ids), batch[1], media))
             \o offered(Tail(ids), batch, media)

FmtInit ==
    /\ fpc = "fetched"
    /\ all_available_formats \in Batches
    /\ media_selected \in MediaSelection
    /\ common_ids = <<>>
    /\ format_options = <<>>
    /\ correct_ids = <<>>
    /\ chosen = "none"
    /\ format_selection = 0

\* wizard.rs lines 79-120: the common ids, the options and the ids behind them
BuildOptions ==
    /\ UNCHANGED notFmt
    /\ fpc = "fetched"
    /\ LET all_sets == [v \in 1..Len(all_available_formats) |->
                            refresh_and_sort_ids(all_available_formats[v])]
       IN IF \E v \in DOMAIN all_sets : ~set_new_ok(all_sets[v])
          THEN \* .expect("Add error handling to format fetching")
               /\ fpc' = "panic"
               /\ UNCHANGED <<common_ids, format_options, correct_ids>>
          ELSE LET ids == intersection(all_sets)
                   shown == offered(ids, all_available_formats, media_selected)
               IN /\ common_ids' = ids
                  /\ format_options' =
                         <<BEST_PER_VIDEO, WORST_PER_VIDEO>>
                             \o [k \in 1..Len(shown) |-> to_frontend(shown[k])]
                  /\ correct_ids' = [k \in 1..Len(shown) |-> shown[k].code]
                  /\ fpc' = "prompt"
    /\ UNCHANGED <<all_available_formats, media_selected, chosen, format_selection>>

\* wizard.rs lines 122-132: the user picks an item, the preference is returned
\* the match on the picked position: 0 and 1 are the two fixed entries, any
\* other position indexes correct_ids two places lower (index out of bounds
\* panics)
selected_format_unshifted(ids, pick) ==
    IF pick = 0 THEN [kind |-> "BestQuality"]
    ELSE IF pick = 1 THEN [kind |-> "WorstQuality"]
    ELSE IF pick >= Len(ids) THEN [kind |-> "panic"]
    ELSE [kind |-> "UniqueFormat", id |-> ids[pick + 1]]

selected_format(ids, pick) ==
    IF pick = 0 THEN [kind |-> "BestQuality"]
    ELSE IF pick = 1 THEN [kind |-> "WorstQuality"]
    ELSE IF pick - 2 >= Len(ids) THEN [kind |-> "panic"]
    ELSE [kind |-> "UniqueFormat", id |-> ids[(pick - 2) + 1]]

SelectFormat ==
    /\ UNCHANGED notFmt
    /\ fpc = "prompt"
    /\ \E user_pick \in 0..(Len(format_options) - 1) :
           /\ format_selection' = user_pick
           /\ LET ret == selected_format(correct_ids, user_pick)
              IN IF ret.kind = "panic"
                 THEN chosen' = chosen /\ fpc' = "panic"
                 ELSE chosen' = ret /\ fpc' = "done"
    /\ UNCHANGED <<all_available_formats, media_selected, common_ids,
                   format_options, correct_ids>>

FmtNext == BuildOptions \/ SelectFormat

InitFormat ==
    /\ RunIdle /\ verbosity = Default /\ PipeIdle /\ FmtInit /\ FetchIdle /\ ClsIdle
    /\ YtIdle /\ RowIdle
SpecFormat == InitFormat /\ [][FmtNext]_vars

\* ------------------------------------------------ claims, get_format
CodesOf(video) == {video[i].code : i \in DOMAIN video}

InEveryCatalog(id) ==
    \A v \in DOMAIN all_available_formats : id \in CodesOf(all_available_formats[v])

\* C5: every concrete id offered to the user, and so every id returned as
\* UniqueFormat, is in the id set of every catalog of the batch.
C5_OfferedIdsInEveryCatalog ==
    /\ \A k \in DOMAIN correct_ids : InEveryCatalog(correct_ids[k])
    /\ (fpc = "done" /\ chosen.kind = "UniqueFormat") => InEveryCatalog(chosen.id)

\* two items; an id of the first that the media selection admits is missing
\* from the second and is not offered, another id is offered
C5_Witness ==
    /\ fpc = "prompt"
    /\ Len(all_available_formats) >= 2
    /\ correct_ids # <<>>
    /\ \E i \in DOMAIN all_available_formats[1] :
           /\ ~skipped(media_selected, all_available_formats[1][i])
           /\ ~InEveryCatalog(all_available_formats[1][i].code)

\* the media kind admits the descriptor
Admitted(media, format) ==
    /\ media = "Video" => format.resolution # "audio"
    /\ media = "Audio" => format.resolution = "audio"

\* the first catalog's descriptor of an id
FirstDescriptor(id) ==
    CHOOSE f \in Range(all_available_formats[1]) : f.code = id

\* the ids common to all catalogs whose descriptor in the first catalog the
\* media kind admits
ExpectedIds ==
    IF all_available_formats = <<>> THEN {}
    ELSE {id \in CodesOf(all_available_formats[1]) :
              InEveryCatalog(id) /\ Admitted(media_selected, FirstDescriptor(id))}

\* C6: the option list is the two fixed options, best then worst, followed
\* by one entry per id that is common to all catalogs and whose descriptor
\* in the first catalog passes the media-kind filter, by ascending id; with
\* no such id it is the two fixed options alone.
C6_OptionList ==
    fpc \in {"prompt", "done"} =>
        format_options =
            <<BEST_PER_VIDEO, WORST_PER_VIDEO>>
                \o [k \in 1..Cardinality(ExpectedIds) |->
                        to_frontend(FirstDescriptor(Ascending(ExpectedIds)[k]))]

\* two catalogs share 22 and the audio-only 140; kind Video offers best,
\* worst and 22
C6_Witness ==
    /\ fpc = "prompt"
    /\ media_selected = "Video"
    /\ Len(all_available_formats) = 2
    /\ InEveryCatalog(140)
    /\ [code |-> 140, resolution |-> "audio"] \in Range(all_available_formats[1])
    /\ format_options =
           <<BEST_PER_VIDEO, WORST_PER_VIDEO,
             to_frontend([code |-> 22, resolution |-> "1280x720"])>>

-----------------------------------------------------------------------------
\* yt_video.rs get_format_from_yt: the formats of one video, as yt-dlp -j
\* lists them, filtered by the media selection and offered in a Select prompt.

YtMediaSelection == {"Video", "VideoOnly", "AudioOnly"}

\* An Option<T> is a sequence of at most one element: <<>> is None.
Some(x) == <<x>>
None == <<>>

\* VideoFormat as deserialized: a muxed format whose size is only estimated,
\* an audio-only format, a storyboard (no bitrate, no size), and a video-only
\* format for which yt-dlp reports neither size.
YtFormatPool ==
    { [format_id |-> "18", resolution |-> "640x360", acodec |-> "mp4a",
       tbr |-> Some(500), filesize |-> None, filesize_approx |-> Some(40)],
      [format_id |-> "140", resolution |-> "audio only", acodec |-> "mp4a",
       tbr |-> Some(129), filesize |-> Some(3), filesize_approx |-> None],
      [format_id |-> "sb0", resolution |-> "48x27", acodec |-> "none",
       tbr |-> None, filesize |-> None, filesize_approx |-> None],
      [format_id |-> "137", resolution |-> "1920x1080", acodec |-> "none",
       tbr |-> Some(4000), filesize |-> None, filesize_approx |-> None] }

YtCatalogs == SeqsUpTo(YtFormatPool, MaxFormats)

PICTURE_FORMAT_TEXT == [text |-> "I shouldn't show up because I am a picture format"]

\* impl fmt::Display for VideoFormat (release build: the id is not printed).
\* The row shows the resolution unless it is "audio only", the exact size or
\* else the approximate one, the bitrate, and the audio codec unless "none".
display_panics(format) ==
    /\ format.tbr # None
    /\ format.filesize = None
    /\ format.filesize_approx = None

display(format) ==
    IF format.tbr # None
    THEN [text |-> "row",
          resolution |-> IF format.resolution # "audio only"
                         THEN Some(format.resolution) ELSE None,
          filesize |-> IF format.filesize # None
                       THEN format.filesize ELSE format.filesize_approx,
          tbr |-> format.tbr,
          acodec |-> IF format.acodec # "none" THEN Some(format.acodec) ELSE None]
    ELSE PICTURE_FORMAT_TEXT

\* check_format: whether a format conforms to the media selection. Formats
\* without a bitrate are pictures and conform to none.
check_format(format, media) ==
    /\ format.tbr # None
    /\ CASE media = "Video" -> format.resolution # "audio only"
         [] media = "AudioOnly" -> format.resolution = "audio only"
         [] media = "VideoOnly" ->
                format.resolution # "audio only" /\ format.acodec = "none"

\* the loop over serialized_formats.formats(): the formats pushed
every_format(formats, media) == formats

conforming_formats(formats, media) ==
    SelectSeq(formats, LAMBDA format : check_format(format, media))

YtInit ==
    /\ vpc = "fetched"
    /\ serialized_formats \in YtCatalogs
    /\ media_selected \in YtMediaSelection
    /\ format_options = <<>>
    /\ correct_ids = <<>>
    /\ chosen = "none"
    /\ format_selection = 0

\* lines 108-122: build format_options and correct_ids side by side
ChooseFormats ==
    /\ UNCHANGED notYt
    /\ vpc = "fetched"
    /\ LET pushed == conforming_formats(serialized_formats, media_selected)
       IN IF \E k \in DOMAIN pushed : display_panics(pushed[k])
          THEN \* .expect("Problem with filesize fetching")
               /\ vpc' = "panic"
               /\ UNCHANGED <<format_options, correct_ids>>
          ELSE /\ format_options' = [k \in 1..Len(pushed) |-> display(pushed[k])]
               /\ correct_ids' = [k \in 1..Len(pushed) |-> pushed[k].format_id]
               /\ vpc' = "prompt"
    /\ UNCHANGED <<serialized_formats, media_selected, chosen, format_selection>>

\* lines 125-132: the Select prompt (an empty item list is an error) and the
\* lookup of the picked position in correct_ids
InteractSelect ==
    /\ UNCHANGED notYt
    /\ vpc = "prompt"
    /\ IF format_options = <<>>
       THEN vpc' = "error" /\ UNCHANGED <<chosen, format_selection>>
       ELSE \E user_pick \in 0..(Len(format_options) - 1) :
                /\ format_selection' = user_pick
                /\ chosen' = [kind |-> "UniqueFormat", id |-> correct_ids[user_pick + 1]]
                /\ vpc' = "done"
    /\ UNCHANGED <<serialized_formats, media_selected, format_options, correct_ids>>

YtNext == ChooseFormats \/ InteractSelect

InitVideo ==
    /\ RunIdle /\ verbosity = Default /\ PipeIdle /\ FetchIdle /\ ClsIdle /\ RowIdle
    /\ fpc = "idle" /\ all_available_formats = <<>> /\ common_ids = <<>>
    /\ YtInit

SpecVideo == InitVideo /\ [][YtNext]_vars

PictureFormats ==
    {serialized_formats[k] : k \in {i \in DOMAIN serialized_formats :
                                        serialized_formats[i].tbr = None}}

-----------------------------------------------------------------------------
\* VideoFormat::from_command on one row of the legacy table (youtube-dl -F).
\* A row is the sequence of its whitespace-separated columns; the first
\* column, the format code, is the sequence of its decimal digits.

DigitChars == <<"0", "1", "2", "3", "4", "5", "6", "7", "8", "9">>

CodeDigits == {"1", "2", "3", "9"}

Codes == SeqsUpTo(CodeDigits, MaxDigits) \ {<<>>}

Extensions == {"m4a", "mp4"}

Resolutions == {"1280x720", "256x144"}

Notes == {"720p", "144p"}

Bitrates == {"50k", "468k"}

\* "139  m4a  audio only DASH audio  50k , ..."
AudioRows ==
    {<<code, ext, "audio", "only", "DASH", "audio", tbr, ",">> :
         code \in Codes, ext \in Extensions, tbr \in Bitrates}

\* "22  mp4  1280x720  720p  468k , ..."
VideoRows ==
    {<<code, ext, res, note, tbr, ",">> :
         code \in Codes, ext \in Extensions, res \in Resolutions,
         note \in Notes, tbr \in Bitrates}

digit_value(c) == (CHOOSE i \in DOMAIN DigitChars : DigitChars[i] = c) - 1

\* str::parse::<u32>: the decimal value of the digits (codes of up to nine
\* digits fit a u32; an empty column does not parse)
RECURSIVE parse_u32(_)
parse_u32(digits) ==
    IF digits = <<>> THEN 0
    ELSE parse_u32(SubSeq(digits, 1, Len(digits) - 1)) * 10
             + digit_value(digits[Len(digits)])

parse_fails(digits) == digits = <<>>

\* the columns taken one after the other; an audio-only row has two more
\* columns ("only", and a two-word note) before the bitrate
from_command_fixed_columns(line) ==
    [code |-> parse_u32(line[1]),
     file_extension |-> line[2],
     resolution |-> line[3],
     size |-> line[5]]

from_command_columns(line) ==
    [code |-> parse_u32(line[1]),
     file_extension |-> line[2],
     resolution |-> line[3],
     size |-> IF line[3] = "audio" THEN line[7] ELSE line[5]]

RowInit ==
    /\ wpc = "row"
    /\ row \in AudioRows \cup VideoRows
    /\ parsed = "none"

FromCommand ==
    /\ UNCHANGED notRow
    /\ wpc = "row"
    /\ IF parse_fails(row[1])
       THEN wpc' = "panic" /\ parsed' = parsed
       ELSE wpc' = "done" /\ parsed' = from_command_columns(row)
    /\ row' = row

RowNext == FromCommand

InitRow ==
    /\ RunIdle /\ verbosity = Default /\ PipeIdle /\ FmtIdle /\ FetchIdle /\ ClsIdle
    /\ YtIdle /\ RowInit

SpecRow == InitRow /\ [][RowNext]_vars

\* the decimal digits of a positive number
RECURSIVE DigitsOf(_)
DigitsOf(n) ==
    IF n = 0 THEN <<>>
    ELSE Append(DigitsOf(n \div 10), DigitChars[(n % 10) + 1])

IsAudioRow == row[3] = "audio" /\ row[4] = "only"

\* C12: from_command maps a well-formed row of either shape to the descriptor
\* whose code is the leading integer, whose extension is the second column,
\* whose resolution is the third column ("audio only" becoming "audio") and
\* whose size is the bitrate token of the row
C12_FromCommandFields ==
    /\ wpc # "panic"
    /\ wpc = "done" =>
           /\ DigitsOf(parsed.code) = row[1]
           /\ parsed.file_extension = row[2]
           /\ parsed.resolution = (IF IsAudioRow THEN "audio" ELSE row[3])
           /\ parsed.size \in Bitrates
           /\ \E k \in 2..Len(row) : row[k] = parsed.size

\* the first row of test_from_command and the descriptor it expects
C12_Witness ==
    /\ wpc = "done"
    /\ row = <<(<<"1", "3", "9">>), "m4a", "audio", "only", "DASH", "audio", "50k", ",">>
    /\ parsed = [code |-> 139, file_extension |-> "m4a", resolution |-> "audio",
                 size |-> "50k"]

-----------------------------------------------------------------------------
\* run.rs: ask_for_redownload and the selection it returns (under Spec).

\* ask_for_redownload has returned
Asked == pc \in {"build", "retry", "retry_run", "done", "panic"} /\ errors # <<>>

NoneRecoverable(errs) == \A i \in DOMAIN errs : Unrecoverable(errs[i])

\* C13: ask_for_redownload reports every unrecoverable error, offers no
\* unrecoverable error for retry, and the options are the two fixed entries
\* followed by the recoverable errors in their original order
C13_OptionsPartitionErrors ==
    Asked =>
        /\ \A i \in DOMAIN errors :
               Unrecoverable(errors[i]) => \E j \in DOMAIN reported : reported[j] = errors[i]
        /\ Len(user_options) >= 2
        /\ user_options[1] = SELECT_ALL
        /\ user_options[2] = SELECT_NOTHING
        /\ \A k \in 3..Len(user_options) : Recoverable(user_options[k])
        /\ SubSeq(user_options, 3, Len(user_options)) = SelectSeq(errors, Recoverable)

C13_Witness ==
    /\ Asked
    /\ reported # <<>>
    /\ Len(user_options) > 2
    /\ Unrecoverable(errors[1])

\* C14: when no error of the first run is recoverable there is no prompt, no
\* command is rebuilt and no further child is spawned; when the first run
\* gives no error there is neither a report nor a prompt
C14_NothingToRetry ==
    /\ (Asked /\ NoneRecoverable(errors)) =>
           /\ prompts = 0
           /\ user_selection = <<>>
           /\ to_be_downloaded = <<>>
           /\ ran = <<>>
           /\ pc \in {"build", "retry", "done"}
    /\ (pc = "done" /\ errors = <<>>) =>
           /\ reported = <<>>
           /\ user_options = <<>>
           /\ prompts = 0
           /\ ran = <<>>

C14_Witness ==
    /\ pc = "done"
    /\ errors # <<>>
    /\ NoneRecoverable(errors)
    /\ reported = errors

\* C15: a selection with index 1 and without index 0 rebuilds nothing, whatever
\* other indices it holds; a selection with index 0 rebuilds the same commands
\* whatever else it holds; an empty selection rebuilds nothing
C15_FixedEntriesDecide ==
    Built =>
        /\ (1 \in Range(user_selection) /\ 0 \notin Range(user_selection))
               => to_be_downloaded = <<>>
        /\ 0 \in Range(user_selection) => to_be_downloaded = CommandsFor(errors)
        /\ user_selection = <<>> => to_be_downloaded = <<>>

C15_Witness ==
    /\ pc = "done"
    /\ errors # <<>>
    /\ 1 \in Range(user_selection)
    /\ 0 \notin Range(user_selection)
    /\ \E k \in DOMAIN user_selection : user_selection[k] >= 2
    /\ ran = <<>>

-----------------------------------------------------------------------------
\* wizard.rs format::get_format: the options shown and the ids behind them
\* (under SpecFormat).

\* the id of the descriptor whose label is shown at position k (0-based)
ShownId(k) == format_options[k + 1].shown.code

\* C16: the option list has exactly two more entries than correct_ids; for
\* every position k >= 2 the index k - 2 is in bounds and the UniqueFormat
\* returned is the id of the descriptor whose label is shown at position k;
\* positions 0 and 1 return BestQuality and WorstQuality
C16_OptionsAlignedWithIds ==
    /\ fpc \in {"prompt", "done"} =>
           /\ Len(format_options) = Len(correct_ids) + 2
           /\ format_options[1] = BEST_PER_VIDEO
           /\ format_options[2] = WORST_PER_VIDEO
           /\ \A k \in 2..(Len(format_options) - 1) :
                  /\ (k - 2) + 1 \in DOMAIN correct_ids
                  /\ correct_ids[(k - 2) + 1] = ShownId(k)
                  /\ \E i \in DOMAIN all_available_formats[1] :
                         format_options[k + 1] = to_frontend(all_available_formats[1][i])
    /\ fpc = "done" =>
           /\ format_selection = 0 => chosen = [kind |-> "BestQuality"]
           /\ format_selection = 1 => chosen = [kind |-> "WorstQuality"]
           /\ format_selection >= 2 =>
                  chosen = [kind |-> "UniqueFormat", id |-> ShownId(format_selection)]
    \* the only panic is the one before any option is built
    /\ fpc = "panic" => format_options = <<>>

C16_Witness ==
    /\ fpc = "done"
    /\ Len(correct_ids) >= 2
    /\ format_selection = Len(format_options) - 1
    /\ chosen.kind = "UniqueFormat"
    /\ correct_ids[1] # correct_ids[2]


====
